---- MODULE Spec2Model ----
(***************************************************************************)
(* Model of src/doublebuffer/main.cpp: a Device that owns two dumb        *)
(* buffers per output, the renderer that fills the buffer at backFb on     *)
(* every timer tick and page-flips to it, and the DRM kernel objects the   *)
(* program talks to (crtc scan-out, pending flip, event queue on the fd).  *)
(***************************************************************************)
EXTENDS Integers, Sequences, FiniteSets, TLC

\* ---- bounds of the model -------------------------------------------------
NumOutputs == 2
MaxTicks == 3
ModeW == 1
ModeH == 1
MaxDestroyCalls == 2

\* ---- program constants ---------------------------------------------------
BUFFER_COUNT == 2
MAP_FAILED == -1
BytesPerPixel == 4
QuitReturnCode == 0

Outputs == 1..NumOutputs
Slots == 0..(BUFFER_COUNT - 1)

VARIABLES
    pc,           \* position of the single thread of control
    fd,           \* QKmsDevice::fd(): "open" or "closed"
    timerActive,  \* m_timer started by the constructor
    m_outputs,    \* Device::m_outputs, a sequence of Output records
    cur,          \* index of the range-for loop over m_outputs
    bi,           \* buffer index of the inner loops (create / destroy)
    fbIdx,        \* local fbIdx of swapBuffers
    m_rgb,        \* <<m_r, m_g, m_b>>
    pixels,       \* contents of each mapping (every pixel holds the same value)
    crtcFb,       \* kernel: framebuffer id scanned out by each crtc (0: none of ours)
    pending,      \* kernel: target fb id of the flip queued on each crtc (0: none)
    events,       \* kernel: page-flip events readable on the fd, oldest first
    kobjs,        \* kernel: live dumb handles, framebuffer ids and mappings
    krel,         \* kernel: number of release calls received per object
    ticks,        \* number of timer ticks delivered so far
    hist          \* observations of the run used to state the properties

vars == <<pc, fd, timerActive, m_outputs, cur, bi, fbIdx, m_rgb, pixels,
          crtcFb, pending, events, kobjs, krel, ticks, hist>>

\* ---- data ----------------------------------------------------------------
\* Framebuffer() : handle(0), pitch(0), size(0), fb(0), p(MAP_FAILED)
Framebuffer == [handle |-> 0, pitch |-> 0, size |-> 0, fb |-> 0, p |-> MAP_FAILED]

\* Output() : backFb(0), flipped(false); kmsOutput.mode_set starts false
Output == [fb |-> [i \in Slots |-> Framebuffer], backFb |-> 0,
           flipped |-> FALSE, mode_set |-> FALSE]

\* The identity the kernel gives to the objects of output o, slot i
\* (creq.handle, the id written by drmModeAddFB, the address mmap returns).
BufId(o, i) == BUFFER_COUNT * (o - 1) + i + 1

BufIds == 1..(BUFFER_COUNT * NumOutputs)

SlotOf(id) == (id - 1) % BUFFER_COUNT

\* Where createFramebuffer stops: "ok" or the call that failed.
Stages == {"ok", "create", "addfb", "mapdumb", "mmap"}

\* The pixel value update() stores: (m_r << 16) | (m_g << 8) | m_b.
\* The three fields stay below 256 within MaxTicks, so the OR is a sum.
PixelValue(rgb) == rgb[1] * 65536 + rgb[2] * 256 + rgb[3]

\* ---- Device::createFramebuffer -------------------------------------------
\* A createFramebuffer that undoes its assignments when a later call fails.
CreateFramebuffer_Rollback(fb, id, stage) ==
    IF stage # "ok" THEN fb
    ELSE [handle |-> id, pitch |-> BytesPerPixel * ModeW,
          size |-> BytesPerPixel * ModeW * ModeH, fb |-> id, p |-> id]

\* The Framebuffer left behind by createFramebuffer when it stops at `stage`.
CreateFramebuffer(fb, id, stage) ==
    IF stage = "create" THEN fb
    ELSE LET a == [fb EXCEPT !.handle = id,
                             !.pitch = BytesPerPixel * ModeW,
                             !.size = BytesPerPixel * ModeW * ModeH]
         IN  IF stage = "addfb" THEN a
             ELSE LET b == [a EXCEPT !.fb = id]
                  IN  IF stage = "mapdumb" THEN b
                      ELSE IF stage = "mmap" THEN [b EXCEPT !.p = MAP_FAILED]
                      ELSE [b EXCEPT !.p = id]

\* The kernel objects that exist after the same call.
KernelCreate(k, id, stage) ==
    [handles |-> IF stage = "create" THEN k.handles ELSE k.handles \cup {id},
     fbs     |-> IF stage \in {"create", "addfb"} THEN k.fbs ELSE k.fbs \cup {id},
     maps    |-> IF stage = "ok" THEN k.maps \cup {id} ELSE k.maps]

\* ---- Device::pageFlipHandler ---------------------------------------------
\* A handler that does not touch backFb.
PageFlipHandler_NoRotate(outs, user_data) == outs

\* A handler that ignores user_data and rotates every output.
PageFlipHandler_All(outs, user_data) ==
    [o \in DOMAIN outs |-> [outs[o] EXCEPT !.backFb = (@ + 1) % BUFFER_COUNT]]

\* user_data is the Output the flip was requested for.
PageFlipHandler(outs, user_data) ==
    [outs EXCEPT ![user_data].backFb = (@ + 1) % BUFFER_COUNT]

\* drmHandleEvent: reads every event readable on the fd and calls the
\* page_flip_handler of the context once per event, oldest first.
RECURSIVE DrmHandleEvent(_, _)
DrmHandleEvent(outs, evs) ==
    IF evs = << >> THEN outs
    ELSE DrmHandleEvent(PageFlipHandler(outs, Head(evs)), Tail(evs))

\* ---- Device::swapBuffers -------------------------------------------------
\* A swapBuffers that never waits for the previous flip.
MustWait_Never(output) == FALSE

\* if (output->flipped): the call waits for a completion first.
MustWait(output) == output.flipped

\* A wait that handles events once instead of looping (if instead of while).
StillWaiting_Once(output, idx) == FALSE

\* while (output->backFb == fbIdx)
StillWaiting(output, idx) == output.backFb = idx

\* Framebuffer &fb(output->fb[output->backFb]); the id handed to drmModePageFlip
FlipTarget(output) == output.fb[output.backFb].fb

\* ---- DumbBufferRenderer::update ------------------------------------------
\* void *p = output.fb[output.backFb].p
WriteSlot(output) == output.backFb

WritePointer(output) == output.fb[WriteSlot(output)].p

\* ---- kernel --------------------------------------------------------------
\* Unacknowledged flips of crtc o: queued in the kernel, or completed with the
\* event not yet read from the fd.
RECURSIVE Count(_, _)
Count(evs, o) ==
    IF evs = << >> THEN 0
    ELSE (IF Head(evs) = o THEN 1 ELSE 0) + Count(Tail(evs), o)

Unacked(o) == (IF pending[o] # 0 THEN 1 ELSE 0) + Count(events, o)

\* The slot of output o on screen (-1: none of this program's buffers).
ShownSlot(o) == IF crtcFb[o] = 0 THEN -1 ELSE SlotOf(crtcFb[o])

PendingSlot(o) == IF pending[o] = 0 THEN -1 ELSE SlotOf(pending[o])

NOut == Len(m_outputs)

\* ---- initial state: DumbBufferRenderer constructed up to open() ------------
Init ==
    /\ pc = "open"
    /\ fd = "closed"
    /\ timerActive = FALSE
    /\ m_outputs = << >>
    /\ cur = 1
    /\ bi = 0
    /\ fbIdx = 0
    /\ m_rgb = <<0, 0, 0>>
    /\ pixels = [id \in BufIds |-> 0]
    /\ crtcFb = [o \in Outputs |-> 0]
    /\ pending = [o \in Outputs |-> 0]
    /\ events = << >>
    /\ kobjs = [handles |-> {}, fbs |-> {}, maps |-> {}]
    /\ krel = [munmap |-> [id \in BufIds |-> 0],
               rmfb |-> [id \in BufIds |-> 0],
               destroy |-> [id \in BufIds |-> 0]]
    /\ ticks = 0
    /\ hist = [calls |-> [o \in Outputs |-> 0],
               wr |-> [o |-> 0, slot |-> 0, shown |-> -1, target |-> -1],
               flipFailed |-> [o \in Outputs |-> FALSE],
               alloc |-> [o \in Outputs |-> [i \in Slots |-> "none"]],
               mode |-> [o \in Outputs |-> "none"],
               destroyed |-> [id \in BufIds |-> 0],
               warnings |-> 0,
               log |-> << >>,
               opened |-> "none",
               exitCode |-> -1]

\* ---- constructor ---------------------------------------------------------
\* Device::open: on failure the constructor returns before the timer starts.
Open ==
    /\ pc = "open"
    /\ \E failed \in BOOLEAN :
          IF ~failed THEN /\ fd' = "open"
                          /\ pc' = "createScreens"
                          /\ hist' = [hist EXCEPT !.opened = "ok"]
                     ELSE /\ fd' = "closed"
                          /\ pc' = "idle"
                          /\ hist' = [hist EXCEPT !.opened = "fail"]
    /\ UNCHANGED <<timerActive, m_outputs, cur, bi, fbIdx, m_rgb, pixels,
                   crtcFb, pending, events, kobjs, krel, ticks>>

\* QKmsDevice::createScreens calls Device::createScreen once per output found.
CreateScreens ==
    /\ pc = "createScreens"
    /\ \E n \in 0..NumOutputs : m_outputs' = [o \in 1..n |-> Output]
    /\ pc' = "createFramebuffers"
    /\ cur' = 1
    /\ bi' = 0
    /\ UNCHANGED <<fd, timerActive, fbIdx, m_rgb, pixels, crtcFb, pending,
                   events, kobjs, krel, ticks, hist>>

\* One pass of the inner loop of createFramebuffers: createFramebuffer(&output, i).
\* A failure returns from createFramebuffers; after the last buffer of an
\* output backFb and flipped are reset.
CreateFramebufferStep ==
    /\ pc = "createFramebuffers"
    /\ cur <= NOut
    /\ \E stage \in Stages :
          LET id == BufId(cur, bi)
              made == [m_outputs EXCEPT ![cur].fb[bi] = CreateFramebuffer(@, id, stage)]
          IN  /\ kobjs' = KernelCreate(kobjs, id, stage)
              /\ hist' = [hist EXCEPT !.alloc[cur][bi] = stage]
              /\ IF stage # "ok"
                 THEN /\ m_outputs' = made
                      /\ pc' = "setMode"
                      /\ cur' = 1
                      /\ bi' = 0
                 ELSE IF bi + 1 < BUFFER_COUNT
                 THEN /\ m_outputs' = made
                      /\ bi' = bi + 1
                      /\ UNCHANGED <<pc, cur>>
                 ELSE /\ m_outputs' = [made EXCEPT ![cur].backFb = 0,
                                                   ![cur].flipped = FALSE]
                      /\ bi' = 0
                      /\ cur' = cur + 1
                      /\ UNCHANGED pc
    /\ UNCHANGED <<fd, timerActive, fbIdx, m_rgb, pixels, crtcFb, pending,
                   events, krel, ticks>>

CreateFramebuffersDone ==
    /\ pc = "createFramebuffers"
    /\ cur > NOut
    /\ pc' = "setMode"
    /\ cur' = 1
    /\ UNCHANGED <<fd, timerActive, m_outputs, bi, fbIdx, m_rgb, pixels, crtcFb,
                   pending, events, kobjs, krel, ticks, hist>>

\* The kernel accepts drmModeSetCrtc only for a registered framebuffer id.
KernelSetCrtcPossible(fbid) == fbid \in kobjs.fbs

\* One pass of the loop of setMode. A failure returns from setMode; the
\* constructor then starts the timer all the same.
SetModeStep ==
    /\ pc = "setMode"
    /\ cur <= NOut
    /\ \E failed \in BOOLEAN :
          /\ ~failed => KernelSetCrtcPossible(m_outputs[cur].fb[0].fb)
          /\ IF ~failed
             THEN /\ m_outputs' = [m_outputs EXCEPT ![cur].mode_set = TRUE]
                  /\ crtcFb' = [crtcFb EXCEPT ![cur] = m_outputs[cur].fb[0].fb]
                  /\ hist' = [hist EXCEPT !.mode[cur] = "ok"]
                  /\ cur' = cur + 1
                  /\ UNCHANGED <<pc, timerActive>>
             ELSE /\ hist' = [hist EXCEPT !.mode[cur] = "fail"]
                  /\ pc' = "idle"
                  /\ timerActive' = TRUE
                  /\ UNCHANGED <<m_outputs, crtcFb, cur>>
    /\ UNCHANGED <<fd, bi, fbIdx, m_rgb, pixels, pending, events, kobjs, krel, ticks>>

SetModeDone ==
    /\ pc = "setMode"
    /\ cur > NOut
    /\ pc' = "idle"
    /\ timerActive' = TRUE
    /\ UNCHANGED <<fd, m_outputs, cur, bi, fbIdx, m_rgb, pixels, crtcFb, pending,
                   events, kobjs, krel, ticks, hist>>

\* ---- timer and DumbBufferRenderer::update --------------------------------
\* QTimer::timeout: the event loop calls update() while the timer runs.
Tick ==
    /\ pc = "idle"
    /\ timerActive
    /\ ticks < MaxTicks
    /\ ticks' = ticks + 1
    /\ pc' = "update"
    /\ cur' = 1
    /\ UNCHANGED <<fd, timerActive, m_outputs, bi, fbIdx, m_rgb, pixels, crtcFb,
                   pending, events, kobjs, krel, hist>>

\* if (p == MAP_FAILED) continue;
UpdateSkip ==
    /\ pc = "update"
    /\ cur <= NOut
    /\ WritePointer(m_outputs[cur]) = MAP_FAILED
    /\ cur' = cur + 1
    /\ UNCHANGED <<pc, fd, timerActive, m_outputs, bi, fbIdx, m_rgb, pixels, crtcFb,
                   pending, events, kobjs, krel, ticks, hist>>

\* Fill the buffer at backFb, advance the colour, call swapBuffers(&output).
UpdateWrite ==
    /\ pc = "update"
    /\ cur <= NOut
    /\ WritePointer(m_outputs[cur]) # MAP_FAILED
    /\ pixels' = [pixels EXCEPT ![WritePointer(m_outputs[cur])] = PixelValue(m_rgb)]
    /\ m_rgb' = <<m_rgb[1] + 1, m_rgb[2] + 2, m_rgb[3] + 3>>
    /\ hist' = [hist EXCEPT !.wr = [o |-> cur,
                                    slot |-> WriteSlot(m_outputs[cur]),
                                    shown |-> ShownSlot(cur),
                                    target |-> PendingSlot(cur)],
                            !.calls[cur] = @ + 1]
    /\ pc' = "swapBuffers"
    /\ UNCHANGED <<fd, timerActive, m_outputs, cur, bi, fbIdx, crtcFb, pending,
                   events, kobjs, krel, ticks>>

UpdateDone ==
    /\ pc = "update"
    /\ cur > NOut
    /\ pc' = "idle"
    /\ UNCHANGED <<fd, timerActive, m_outputs, cur, bi, fbIdx, m_rgb, pixels, crtcFb,
                   pending, events, kobjs, krel, ticks, hist>>

\* ---- Device::swapBuffers -------------------------------------------------
\* Entry: either remember backFb and enter the wait loop, or set flipped.
SwapBuffersEnter ==
    /\ pc = "swapBuffers"
    /\ IF MustWait(m_outputs[cur])
       THEN /\ fbIdx' = m_outputs[cur].backFb
            /\ pc' = "drmHandleEvent"
            /\ UNCHANGED m_outputs
       ELSE /\ m_outputs' = [m_outputs EXCEPT ![cur].flipped = TRUE]
            /\ pc' = "drmModePageFlip"
            /\ UNCHANGED fbIdx
    /\ UNCHANGED <<fd, timerActive, cur, bi, m_rgb, pixels, crtcFb, pending,
                   events, kobjs, krel, ticks, hist>>

\* One pass of the wait loop: drmHandleEvent blocks until the fd is readable,
\* dispatches what it read, and the loop condition is tested again.
SwapBuffersWait ==
    /\ pc = "drmHandleEvent"
    /\ events # << >>
    /\ m_outputs' = DrmHandleEvent(m_outputs, events)
    /\ events' = << >>
    /\ pc' = IF StillWaiting(m_outputs'[cur], fbIdx) THEN "drmHandleEvent"
             ELSE "drmModePageFlip"
    /\ UNCHANGED <<fd, timerActive, cur, bi, fbIdx, m_rgb, pixels, crtcFb, pending,
                   kobjs, krel, ticks, hist>>

\* The kernel queues a flip only for a registered framebuffer and only when
\* no flip is queued on the crtc (EBUSY otherwise); it may also refuse.
KernelFlipPossible(o, fbid) == fbid \in kobjs.fbs /\ pending[o] = 0

\* drmModePageFlip(fd, crtc_id, fb.fb, DRM_MODE_PAGE_FLIP_EVENT, output)
SwapBuffersFlip ==
    /\ pc = "drmModePageFlip"
    /\ \E failed \in BOOLEAN :
          /\ ~failed => KernelFlipPossible(cur, FlipTarget(m_outputs[cur]))
          /\ IF ~failed
             THEN /\ pending' = [pending EXCEPT ![cur] = FlipTarget(m_outputs[cur])]
                  /\ UNCHANGED hist
             ELSE /\ hist' = [hist EXCEPT !.flipFailed[cur] = TRUE]
                  /\ UNCHANGED pending
    /\ pc' = "ret"
    /\ UNCHANGED <<fd, timerActive, m_outputs, cur, bi, fbIdx, m_rgb, pixels, crtcFb,
                   events, kobjs, krel, ticks>>

\* swapBuffers returns into the loop of update, which moves to the next output.
SwapBuffersReturn ==
    /\ pc = "ret"
    /\ pc' = "update"
    /\ cur' = cur + 1
    /\ UNCHANGED <<fd, timerActive, m_outputs, bi, fbIdx, m_rgb, pixels, crtcFb,
                   pending, events, kobjs, krel, ticks, hist>>

\* ---- kernel: vertical blank of crtc o --------------------------------------
\* The queued flip takes effect and its completion event becomes readable.
Vblank(o) ==
    /\ fd = "open"
    /\ pending[o] # 0
    /\ crtcFb' = [crtcFb EXCEPT ![o] = pending[o]]
    /\ pending' = [pending EXCEPT ![o] = 0]
    /\ events' = Append(events, o)
    /\ UNCHANGED <<pc, fd, timerActive, m_outputs, cur, bi, fbIdx, m_rgb, pixels,
                   kobjs, krel, ticks, hist>>

\* ---- Device::destroyFramebuffer ------------------------------------------
\* A destroyFramebuffer whose DESTROY_DUMB sits inside the if (fb.fb) block.
DestroyCalls_Nested(fb) ==
    [munmap |-> fb.p # MAP_FAILED, rmfb |-> fb.fb # 0,
     destroy |-> fb.fb # 0 /\ fb.handle # 0]

\* Which release calls destroyFramebuffer issues for a Framebuffer:
\* if (fb.p != MAP_FAILED) munmap; if (fb.fb) drmModeRmFB; if (fb.handle) DESTROY_DUMB.
DestroyCalls(fb) ==
    [munmap |-> fb.p # MAP_FAILED, rmfb |-> fb.fb # 0, destroy |-> fb.handle # 0]

\* A destroyFramebuffer that gives up on the buffer when drmModeRmFB fails.
DestroySequence_StopOnError(fb, rmOk, dOk) ==
    SelectSeq(<<"munmap", "rmfb", "destroy">>,
              LAMBDA c : DestroyCalls(fb)[c] /\ (c = "destroy" => rmOk))

\* The release calls one destroyFramebuffer issues, in program order. The
\* results rmOk and dOk only feed qErrnoWarning.
DestroySequence(fb, rmOk, dOk) ==
    SelectSeq(<<"munmap", "rmfb", "destroy">>, LAMBDA c : DestroyCalls(fb)[c])

Issued(seq, c) == \E k \in 1..Len(seq) : seq[k] = c

\* A destroyFramebuffer that forgets to reset the Framebuffer.
DestroyResult_Keep(fb) == fb

\* fb = Framebuffer();
DestroyResult(fb) == Framebuffer

Bump(f, id, yes) == IF yes THEN [f EXCEPT ![id] = @ + 1] ELSE f

\* destroyFramebuffer(&m_outputs[o], i), with the kernel's answers rmOk and
\* dOk to drmModeRmFB and DRM_IOCTL_MODE_DESTROY_DUMB (munmap's result is not
\* read). A failed call is reported by qErrnoWarning and nothing else depends
\* on it; kobjs keeps the objects no release call was issued for, hist.log
\* the calls this destroyFramebuffer issued and hist.warnings the number of
\* warnings it printed.
DestroyFramebufferOn(o, i, rmOk, dOk) ==
    LET fb == m_outputs[o].fb[i]
        seq == DestroySequence(fb, rmOk, dOk)
        c == [call \in {"munmap", "rmfb", "destroy"} |-> Issued(seq, call)]
    IN  /\ (~DestroyCalls(fb).rmfb) => rmOk
        /\ (~DestroyCalls(fb).destroy) => dOk
        /\ m_outputs' = [m_outputs EXCEPT ![o].fb[i] = DestroyResult(fb)]
        /\ krel' = [munmap |-> Bump(krel.munmap, fb.p, c.munmap),
                    rmfb |-> Bump(krel.rmfb, fb.fb, c.rmfb),
                    destroy |-> Bump(krel.destroy, fb.handle, c.destroy)]
        /\ kobjs' = [maps |-> IF c.munmap THEN kobjs.maps \ {fb.p} ELSE kobjs.maps,
                     fbs |-> IF c.rmfb THEN kobjs.fbs \ {fb.fb} ELSE kobjs.fbs,
                     handles |-> IF c.destroy THEN kobjs.handles \ {fb.handle}
                                 ELSE kobjs.handles]
        /\ crtcFb' = [x \in Outputs |->
                        IF c.rmfb /\ crtcFb[x] = fb.fb THEN 0 ELSE crtcFb[x]]
        /\ hist' = [hist EXCEPT !.destroyed[BufId(o, i)] = @ + 1,
                                !.log = seq,
                                !.warnings = (IF rmOk THEN 0 ELSE 1)
                                             + (IF dOk THEN 0 ELSE 1)]

\* ---- shutdown: ~DumbBufferRenderer ----------------------------------------
\* QCoreApplication::quit ends app.exec() with return code 0, which main
\* returns; r is destroyed on the way out of main.
Quit ==
    /\ pc = "idle"
    /\ pc' = "destroyFramebuffers"
    /\ cur' = 1
    /\ bi' = 0
    /\ timerActive' = FALSE
    /\ hist' = [hist EXCEPT !.exitCode = QuitReturnCode]
    /\ UNCHANGED <<fd, m_outputs, fbIdx, m_rgb, pixels, crtcFb, pending, events,
                   kobjs, krel, ticks>>

\* One pass of the inner loop of destroyFramebuffers.
DestroyFramebufferStep ==
    /\ pc = "destroyFramebuffers"
    /\ cur <= NOut
    /\ \E rmOk, dOk \in BOOLEAN : DestroyFramebufferOn(cur, bi, rmOk, dOk)
    /\ IF bi + 1 < BUFFER_COUNT
       THEN /\ bi' = bi + 1
            /\ UNCHANGED cur
       ELSE /\ bi' = 0
            /\ cur' = cur + 1
    /\ UNCHANGED <<pc, fd, timerActive, fbIdx, m_rgb, pixels, pending, events, ticks>>

DestroyFramebuffersDone ==
    /\ pc = "destroyFramebuffers"
    /\ cur > NOut
    /\ pc' = "close"
    /\ UNCHANGED <<fd, timerActive, m_outputs, cur, bi, fbIdx, m_rgb, pixels, crtcFb,
                   pending, events, kobjs, krel, ticks, hist>>

\* Device::close: restore the mode of the outputs with mode_set, clear
\* m_outputs, close the fd. The kernel drops what the closed file owned.
Close ==
    /\ pc = "close"
    /\ crtcFb' = [o \in Outputs |->
                    IF o <= NOut /\ m_outputs[o].mode_set THEN 0 ELSE crtcFb[o]]
    /\ m_outputs' = << >>
    /\ IF fd = "open"
       THEN /\ fd' = "closed"
            /\ pending' = [o \in Outputs |-> 0]
            /\ events' = << >>
            /\ kobjs' = [handles |-> {}, fbs |-> {}, maps |-> kobjs.maps]
       ELSE UNCHANGED <<fd, pending, events, kobjs>>
    /\ pc' = "exit"
    /\ UNCHANGED <<timerActive, cur, bi, fbIdx, m_rgb, pixels, krel, ticks, hist>>

\* ---- the program ----------------------------------------------------------
\* The steps of the process (one thread, driven by the Qt event loop).
Program ==
    \/ Open
    \/ CreateScreens
    \/ CreateFramebufferStep
    \/ CreateFramebuffersDone
    \/ SetModeStep
    \/ SetModeDone
    \/ Tick
    \/ UpdateSkip
    \/ UpdateWrite
    \/ UpdateDone
    \/ SwapBuffersEnter
    \/ SwapBuffersWait
    \/ SwapBuffersFlip
    \/ SwapBuffersReturn
    \/ Quit
    \/ DestroyFramebufferStep
    \/ DestroyFramebuffersDone
    \/ Close

Next == Program \/ \E o \in Outputs : Vblank(o)

Spec == Init /\ [][Next]_vars

\* The thread keeps running while it can take a step, and every queued flip
\* reaches its vertical blank.
FairSpec == Spec /\ WF_vars(Program) /\ \A o \in Outputs : WF_vars(Vblank(o))

\* ---- vocabulary of the properties ------------------------------------------
InSwapBuffers == pc \in {"swapBuffers", "drmHandleEvent", "drmModePageFlip"}

\* The bit a XOR b.
Xor(a, b) == (a + b) % 2

AllocOk(o) == \A i \in Slots : hist.alloc[o][i] = "ok"

AllocFailed(o) == \E i \in Slots : hist.alloc[o][i] \notin {"ok", "none"}

FullyAllocated(output) ==
    \A i \in Slots : /\ output.fb[i].handle # 0
                     /\ output.fb[i].fb # 0
                     /\ output.fb[i].p # MAP_FAILED

\* ---- C1 --------------------------------------------------------------------
\* C1: every output has at most one flip request that was submitted and whose
\* completion pageFlipHandler has not processed yet, and when swapBuffers is
\* about to submit a request none is left unprocessed for that output.
C1_AtMostOneInFlight ==
    /\ \A o \in Outputs : Unacked(o) <= 1
    /\ pc = "drmModePageFlip" => Unacked(cur) = 0

\* A later call of swapBuffers has left its wait and stands before the submission.
C1_Witness ==
    /\ pc = "drmModePageFlip"
    /\ hist.calls[cur] >= 2
    /\ m_outputs[cur].backFb # fbIdx

\* ---- C2 --------------------------------------------------------------------
\* C2 as claimed: backFb stays in {0,1} and when the N-th swapBuffers call on
\* an output returns it equals initial XOR (N mod 2).
C2_RotationPerCall ==
    /\ \A o \in 1..NOut : m_outputs[o].backFb \in Slots
    /\ pc = "ret" => m_outputs[cur].backFb = Xor(Output.backFb, hist.calls[cur] % 2)

\* C2 as amended: backFb stays in {0,1}; the first call leaves it alone and
\* every later call that returns has rotated it once, so when the N-th call
\* (N >= 1) returns it equals initial XOR ((N - 1) mod 2).
C2_RotationPerCompletion ==
    /\ \A o \in 1..NOut : m_outputs[o].backFb \in Slots
    /\ pc = "ret" =>
          m_outputs[cur].backFb = Xor(Output.backFb, (hist.calls[cur] - 1) % 2)

\* The third call on an output returns with backFb back at its initial value.
C2_Witness ==
    /\ pc = "ret"
    /\ hist.calls[cur] = 3
    /\ m_outputs[cur].backFb = Output.backFb

\* ---- C3 --------------------------------------------------------------------
\* C3: every swapBuffers call for an output whose flip requests were all
\* accepted eventually returns, whatever the order and batching of the
\* notifications of the outputs sharing the fd.
C3_EveryPresentReturns ==
    (InSwapBuffers /\ ~hist.flipFailed[cur]) ~> (pc = "ret")

\* ---- C4 --------------------------------------------------------------------
\* C4: in a pass of the wait loop of swapBuffers for output cur, every other
\* output with a notification in what was read has its backFb rotated by that
\* pass, and when nothing read belongs to cur, cur's backFb is unchanged and
\* the wait goes on.
C4_Demultiplexing ==
    [][(pc = "drmHandleEvent" /\ events # << >> /\ events' = << >>) =>
          /\ \A b \in 1..NOut :
                (b # cur /\ Count(events, b) = 1) =>
                    m_outputs'[b].backFb = Xor(m_outputs[b].backFb, 1)
          /\ Count(events, cur) = 0 =>
                /\ m_outputs'[cur].backFb = m_outputs[cur].backFb
                /\ pc' = "drmHandleEvent"]_vars

\* The wait for cur has just processed a notification of another output only:
\* that output is rotated although its own second call has not begun.
C4_Witness ==
    /\ pc = "drmHandleEvent"
    /\ events = << >>
    /\ m_outputs[cur].backFb = fbIdx
    /\ \E b \in 1..NOut : /\ b # cur
                          /\ hist.calls[b] = 1
                          /\ m_outputs[b].backFb = Xor(Output.backFb, 1)

\* ---- C5 --------------------------------------------------------------------
\* C5: once drmModePageFlip has failed for an output, update neither writes
\* to that output nor calls swapBuffers for it again.
C5_FailedOutputDropped ==
    \A o \in Outputs : hist.flipFailed[o] => ~(cur = o /\ InSwapBuffers)

\* ---- C6 --------------------------------------------------------------------
\* C6: the slot update writes is, when written, neither the slot on screen
\* nor the target of the output's queued flip.
C6_WriteOffScreen ==
    hist.wr.o # 0 => /\ hist.wr.slot # hist.wr.shown
                     /\ hist.wr.slot # hist.wr.target

\* ---- C7 --------------------------------------------------------------------
\* C7: the slot swapBuffers submits to drmModePageFlip is the slot update
\* wrote earlier in the same tick.
C7_WrittenIsPresented ==
    pc = "drmModePageFlip" => m_outputs[cur].backFb = hist.wr.slot

\* ---- C8 --------------------------------------------------------------------
\* C8: when the allocation of output b failed and an earlier output a was
\* allocated, b is never written or presented, and a has been written and
\* presented once per tick whenever update has returned.
C8_AllocationFailureIsolation ==
    \A a, b \in Outputs :
        (a < b /\ AllocOk(a) /\ AllocFailed(b)) =>
            /\ hist.calls[b] = 0
            /\ pc = "idle" => hist.calls[a] = ticks

\* ---- C9 --------------------------------------------------------------------
\* C9: when the constructor is done, every output none of whose own
\* allocation calls failed has both buffers, and every output with both
\* buffers whose own drmModeSetCrtc did not fail has its mode set.
C9_FailuresAreLocal ==
    (pc = "idle" /\ timerActive) =>
        \A o \in 1..NOut :
            /\ ~AllocFailed(o) => FullyAllocated(m_outputs[o])
            /\ (FullyAllocated(m_outputs[o]) /\ hist.mode[o] # "fail") =>
                  m_outputs[o].mode_set

\* ---- C10 -------------------------------------------------------------------
\* destroyFramebuffer called directly, on any buffer of any output and up to
\* MaxDestroyCalls times per buffer, once createFramebuffers has returned.
DestroyFramebufferCall ==
    /\ pc = "setMode"
    /\ \E o \in 1..NOut, i \in Slots, rmOk, dOk \in BOOLEAN :
          /\ hist.destroyed[BufId(o, i)] < MaxDestroyCalls
          /\ DestroyFramebufferOn(o, i, rmOk, dOk)
    /\ UNCHANGED <<pc, fd, timerActive, cur, bi, fbIdx, m_rgb, pixels, pending,
                   events, ticks>>

TeardownNext ==
    \/ Open
    \/ CreateScreens
    \/ CreateFramebufferStep
    \/ CreateFramebuffersDone
    \/ DestroyFramebufferCall

\* The buffers as createFramebuffers leaves them, then destroyFramebuffer calls.
TeardownSpec == Init /\ [][TeardownNext]_vars

\* C10: a destroyFramebuffer call on a buffer that an earlier call has torn
\* down issues no munmap, drmModeRmFB or DESTROY_DUMB, prints no warning and
\* leaves the Framebuffer at handle 0, pitch 0, size 0, fb 0, p MAP_FAILED.
C10_TeardownIdempotent ==
    [][\A o \in 1..NOut, i \in Slots :
          (/\ hist.destroyed[BufId(o, i)] >= 1
           /\ hist'.destroyed[BufId(o, i)] = hist.destroyed[BufId(o, i)] + 1) =>
              /\ krel' = krel
              /\ hist'.warnings = 0
              /\ m_outputs'[o].fb[i] = Framebuffer]_vars

\* A buffer that createFramebuffer completed has been destroyed twice.
C10_Witness ==
    \E o \in 1..NOut, i \in Slots :
        /\ hist.alloc[o][i] = "ok"
        /\ hist.destroyed[BufId(o, i)] = 2

\* ---- C11 -------------------------------------------------------------------
OpenFailed == hist.opened = "fail"

\* drmModeSetCrtc failed and no output had its mode set.
ModeSetFailedForAll ==
    /\ \E o \in Outputs : hist.mode[o] = "fail"
    /\ \A o \in Outputs : hist.mode[o] # "ok"

\* C11: when the process has exited, its exit code is non-zero if opening the
\* device failed or the mode set failed for all outputs, and 0 otherwise.
C11_ExitCode ==
    pc = "exit" =>
        IF OpenFailed \/ ModeSetFailedForAll THEN hist.exitCode # 0
        ELSE hist.exitCode = 0

\* ---- C12 -------------------------------------------------------------------
\* C12: outside swapBuffers, flipped is true for exactly the outputs with a
\* flip request submitted and not yet handled by pageFlipHandler.
C12_FlippedMeansInFlight ==
    ~InSwapBuffers =>
        \A o \in 1..NOut : m_outputs[o].flipped <=> Unacked(o) >= 1

\* ---- C13 -------------------------------------------------------------------
\* C13: every flip request the kernel accepts from swapBuffers targets a slot
\* other than the one on screen at that time.
C13_FlipTargetOffScreen ==
    [][(pc = "drmModePageFlip" /\ pending[cur] = 0 /\ pending'[cur] # 0) =>
          SlotOf(pending'[cur]) # ShownSlot(cur)]_vars

\* ---- C14 -------------------------------------------------------------------
\* All four of handle, size, fb and p of a Framebuffer are set.
FullyConstructed(fb) ==
    fb.handle # 0 /\ fb.size # 0 /\ fb.fb # 0 /\ fb.p # MAP_FAILED

\* C14 as stated: between calls every Framebuffer is fully constructed or
\* equal to Framebuffer(); a failed createFramebuffer leaves nothing behind.
C14_AllOrNothing ==
    \A o \in 1..NOut : \A i \in Slots :
        FullyConstructed(m_outputs[o].fb[i]) \/ m_outputs[o].fb[i] = Framebuffer

\* C14: a Framebuffer is Framebuffer() before createFramebuffer ran on it,
\* after a createFramebuffer that failed at creation, and after
\* destroyFramebuffer; it is fully constructed after a createFramebuffer that
\* succeeded; and after a createFramebuffer that failed later it keeps exactly
\* what was acquired before the failing call, until destroyFramebuffer: handle,
\* pitch and size after a failed registration, these and fb after a failed
\* map ioctl or mmap.
C14_StateFollowsStage ==
    \A o \in 1..NOut : \A i \in Slots :
        LET fb == m_outputs[o].fb[i]
            stage == hist.alloc[o][i]
        IN  IF hist.destroyed[BufId(o, i)] > 0 \/ stage \in {"none", "create"}
            THEN fb = Framebuffer
            ELSE /\ fb.handle # 0 /\ fb.pitch # 0 /\ fb.size # 0
                 /\ fb.fb # 0 <=> stage \in {"mapdumb", "mmap", "ok"}
                 /\ fb.p # MAP_FAILED <=> stage = "ok"
                 /\ FullyConstructed(fb) <=> stage = "ok"

\* destroyFramebuffers has torn down slot 0 of an output and has not yet
\* reached its slot 1, whose createFramebuffer failed at the map ioctl.
C14_Witness ==
    /\ pc = "destroyFramebuffers"
    /\ \E o \in 1..NOut :
          /\ hist.alloc[o][0] = "ok"
          /\ hist.destroyed[BufId(o, 0)] = 1
          /\ m_outputs[o].fb[0] = Framebuffer
          /\ hist.alloc[o][1] = "mapdumb"
          /\ hist.destroyed[BufId(o, 1)] = 0
          /\ m_outputs[o].fb[1].handle # 0
          /\ m_outputs[o].fb[1].fb # 0
          /\ m_outputs[o].fb[1].p = MAP_FAILED

\* ---- C15 -------------------------------------------------------------------
\* C15: while destroyFramebuffers still has a buffer of an output to release,
\* that output has no flip request whose completion event was not consumed.
C15_NoReleaseUnderFlip ==
    (pc = "destroyFramebuffers" /\ cur <= NOut) => Unacked(cur) = 0

\* ---- C16 -------------------------------------------------------------------
\* C16: update never calls swapBuffers for an output whose drmModeSetCrtc
\* failed or was not attempted by setMode.
C16_ModeSetFailureExcludes ==
    \A o \in 1..NOut : hist.mode[o] # "ok" => hist.calls[o] = 0

\* ---- C17 -------------------------------------------------------------------
\* C17: an output for which setMode has called drmModeSetCrtc has a slot 0
\* buffer with a non-zero fb (as long as that buffer was not destroyed).
C17_BindPrecondition ==
    \A o \in 1..NOut :
        (hist.mode[o] # "none" /\ hist.destroyed[BufId(o, 0)] = 0) =>
            m_outputs[o].fb[0].fb # 0

\* ---- C18 -------------------------------------------------------------------
\* C18: every destroyFramebuffer of destroyFramebuffers issues munmap, then
\* drmModeRmFB, then DESTROY_DUMB, each exactly when the Framebuffer holds the
\* resource and whatever the earlier calls answered; it leaves Framebuffer()
\* behind and the loops go on to the next buffer, so that every buffer of
\* every output has been through destroyFramebuffer once when close is reached.
C18_BestEffortOrderedTeardown ==
    /\ [][(pc = "destroyFramebuffers" /\ cur <= NOut /\ hist' # hist) =>
            LET fb == m_outputs[cur].fb[bi]
            IN  /\ hist'.log = (IF fb.p # MAP_FAILED THEN <<"munmap">> ELSE << >>)
                               \o (IF fb.fb # 0 THEN <<"rmfb">> ELSE << >>)
                               \o (IF fb.handle # 0 THEN <<"destroy">> ELSE << >>)
                /\ m_outputs'[cur].fb[bi] = Framebuffer
                /\ hist'.destroyed[BufId(cur, bi)] = 1
                /\ pc' = "destroyFramebuffers"
                /\ <<cur', bi'>> = IF bi + 1 < BUFFER_COUNT THEN <<cur, bi + 1>>
                                   ELSE <<cur + 1, 0>>]_vars
    /\ [](pc = "close" =>
            \A o \in 1..NOut : \A i \in Slots : hist.destroyed[BufId(o, i)] = 1)

\* destroyFramebuffer has just returned for slot 0 of an output: it held all
\* three resources, drmModeRmFB and DESTROY_DUMB both failed, all three calls
\* were issued and slot 1 is next.
C18_Witness ==
    /\ pc = "destroyFramebuffers"
    /\ cur <= NOut
    /\ bi = 1
    /\ hist.warnings = 2
    /\ hist.log = <<"munmap", "rmfb", "destroy">>
    /\ m_outputs[cur].fb[0] = Framebuffer
    /\ hist.destroyed[BufId(cur, 1)] = 0

\* ---- C19 -------------------------------------------------------------------
\* What createFramebuffer acquired when it stopped at `stage`.
Acquired(stage) ==
    [handle |-> stage \in {"addfb", "mapdumb", "mmap", "ok"},
     fb |-> stage \in {"mapdumb", "mmap", "ok"},
     map |-> stage = "ok"]

\* C19: no release call is ever issued twice for the same object, and once
\* destroyFramebuffers has returned, DESTROY_DUMB, drmModeRmFB and munmap have
\* each been issued exactly for the handles, framebuffer ids and mappings that
\* createFramebuffer acquired, at whatever stage it stopped, and no object of
\* the program is left without a release call.
C19_NoResourceLeak ==
    /\ \A id \in BufIds :
          krel.munmap[id] <= 1 /\ krel.rmfb[id] <= 1 /\ krel.destroy[id] <= 1
    /\ pc \in {"close", "exit"} =>
          /\ \A o \in Outputs : \A i \in Slots :
                LET a == Acquired(hist.alloc[o][i])
                    id == BufId(o, i)
                IN  /\ krel.destroy[id] = (IF a.handle THEN 1 ELSE 0)
                    /\ krel.rmfb[id] = (IF a.fb THEN 1 ELSE 0)
                    /\ krel.munmap[id] = (IF a.map THEN 1 ELSE 0)
          /\ kobjs = [handles |-> {}, fbs |-> {}, maps |-> {}]

\* The program has exited after a startup in which an output got slot 0 in
\* full and slot 1 failed at drmModeAddFB: the handle of slot 1 was destroyed,
\* and all three resources of slot 0 were released.
C19_Witness ==
    /\ pc = "exit"
    /\ \E o \in Outputs :
          /\ hist.alloc[o][0] = "ok"
          /\ hist.alloc[o][1] = "addfb"
          /\ krel.munmap[BufId(o, 0)] = 1
          /\ krel.rmfb[BufId(o, 0)] = 1
          /\ krel.destroy[BufId(o, 0)] = 1
          /\ krel.destroy[BufId(o, 1)] = 1
          /\ krel.rmfb[BufId(o, 1)] = 0

\* ---- C20 -------------------------------------------------------------------
\* C20: whenever swapBuffers is about to call drmModePageFlip, the target
\* Framebuffer fb[backFb] has a non-zero fb and is mapped.
C20_NoFlipToUnallocated ==
    pc = "drmModePageFlip" =>
        LET fb == m_outputs[cur].fb[m_outputs[cur].backFb]
        IN  fb.fb # 0 /\ fb.p # MAP_FAILED

\* ---- C21 -------------------------------------------------------------------
\* The run so far is the one-output run in which nothing failed: open
\* succeeded, createScreens found one output, no createFramebuffer, no
\* drmModeSetCrtc and no drmModePageFlip failed.
SingleOutputAllSucceed ==
    /\ hist.opened # "fail"
    /\ pc \notin {"open", "createScreens", "exit"} => NOut = 1
    /\ \A o \in Outputs : /\ \A i \in Slots : hist.alloc[o][i] \in {"none", "ok"}
                          /\ hist.mode[o] # "fail"
                          /\ ~hist.flipFailed[o]

\* The steps of the program in such a run: every call into the kernel that
\* the run makes during startup and in the frame loop succeeds.
SingleOutputProgram ==
    \/ Open /\ SingleOutputAllSucceed'
    \/ CreateScreens /\ SingleOutputAllSucceed'
    \/ CreateFramebufferStep /\ SingleOutputAllSucceed'
    \/ CreateFramebuffersDone
    \/ SetModeStep /\ SingleOutputAllSucceed'
    \/ SetModeDone
    \/ Tick
    \/ UpdateWrite
    \/ UpdateDone
    \/ SwapBuffersEnter
    \/ SwapBuffersWait
    \/ SwapBuffersFlip /\ SingleOutputAllSucceed'
    \/ SwapBuffersReturn
    \/ Quit
    \/ DestroyFramebufferStep
    \/ DestroyFramebuffersDone
    \/ Close

SingleOutputNext == SingleOutputProgram \/ \E o \in Outputs : Vblank(o)

\* The thread keeps running and every submitted flip request is notified.
SingleOutputSpec ==
    /\ Init
    /\ [][SingleOutputNext]_vars
    /\ WF_vars(SingleOutputProgram)
    /\ \A o \in Outputs : WF_vars(Vblank(o))

\* C21 as stated: in such a run, with every flip notified, the frame loop
\* completes infinitely many ticks.
C21_InfinitelyManyTicks ==
    ([]SingleOutputAllSucceed) => []<>(pc = "update")

\* C21: in such a run, with every flip notified, every swapBuffers call
\* returns and every tick the timer starts completes, until quit stops the
\* timer; swapBuffers skips the wait on the first tick and waits on every
\* later one, each wait consumes exactly one notification and ends with it,
\* each call submits exactly one flip request, and a completed tick k has made
\* k calls and left one request unacknowledged.
C21_SingleOutputProgress ==
    /\ ([]SingleOutputAllSucceed) =>
          /\ (pc = "swapBuffers") ~> (pc = "ret")
          /\ (pc = "update") ~> (pc = "idle")
    /\ [][(SingleOutputAllSucceed /\ SingleOutputAllSucceed') =>
            /\ (pc = "swapBuffers" /\ pc' # pc) =>
                  pc' = IF ticks = 1 THEN "drmModePageFlip" ELSE "drmHandleEvent"
            /\ (pc = "drmHandleEvent" /\ events # << >> /\ events' = << >>) =>
                  /\ events = <<1>>
                  /\ m_outputs'[1].backFb = (m_outputs[1].backFb + 1) % BUFFER_COUNT
                  /\ pc' = "drmModePageFlip"
            /\ (pc = "drmModePageFlip" /\ pc' # pc) =>
                  /\ pending[1] = 0 /\ pending'[1] = FlipTarget(m_outputs[1])
                  /\ pc' = "ret"
            /\ (pc = "update" /\ pc' = "idle") =>
                  /\ hist.calls[1] = ticks
                  /\ Unacked(1) = 1]_vars

\* The third tick of such a run has completed: three calls, the flip of this
\* tick unacknowledged, and backFb rotated twice.
C21_Witness ==
    /\ SingleOutputAllSucceed
    /\ pc = "idle"
    /\ ticks = 3
    /\ hist.calls[1] = 3
    /\ Unacked(1) = 1
    /\ m_outputs[1].backFb = 0
    /\ hist.mode[1] = "ok"

====
